---- MODULE Spec2Model ----
(***************************************************************************)
(* A model of the Digistorm connector: an HTTPS server that authenticates  *)
(* a request with HTTP basic auth, decodes a JSON task, runs it against a  *)
(* database named by the task itself and answers with a JSON envelope.     *)
(*                                                                         *)
(* Strings the code splits or formats are sequences of tokens; a JSON text *)
(* is the record of what encoding/json decodes out of it; the database     *)
(* drivers and the row mapper are the environment, their outcomes drawn    *)
(* with \E in the step that calls them.                                    *)
(***************************************************************************)
EXTENDS Integers, Sequences, FiniteSets, TLC

\* ------------------------------------------------------------------------
\* Bounds
\* ------------------------------------------------------------------------

\* Largest number of rows a query returns.
MaxRows == 2

\* Largest value a driver reports for an insert id or an affected-row count.
MaxCount == 1

\* Largest number of bytes that follow the JSON document in a request body.
MaxTail == 1

\* ------------------------------------------------------------------------
\* Program constants
\* ------------------------------------------------------------------------

HOST == "127.0.0.1"
PORT == "8081"
AUTH_USER == "digistormconnector"
TASK_TYPE_DB_MYSQL_QUERY == "mysql.query"
TASK_TYPE_DB_MYSQL_EXEC == "mysql.exec"
TASK_TYPE_DB_MSSQL_QUERY == "mssql.query"
TASK_TYPE_DB_MSSQL_EXEC == "mssql.exec"

\* The cap of the io.LimitReader on the request body.
BodyLimit == 1048576

StatusOK == 200
StatusInternalServerError == 500
StatusUnauthorized == 401

\* The drivers the blank imports register with database/sql.
RegisteredDrivers == {"mysql", "mssql"}

\* The concurrent request goroutines of the HTTP server.
Reqs == {1, 2}

\* ------------------------------------------------------------------------
\* Strings as token sequences
\* ------------------------------------------------------------------------

\* Index of the first occurrence of sep in s, 0 when there is none.
IndexOf(s, sep) ==
  IF \E i \in 1..Len(s) : s[i] = sep
    THEN CHOOSE i \in 1..Len(s) : s[i] = sep /\ \A j \in 1..(i - 1) : s[j] # sep
    ELSE 0

\* strings.SplitN(s, sep, 2): the whole string when sep does not occur,
\* otherwise what precedes the first sep and everything after it.
SplitN2(s, sep) ==
  LET i == IndexOf(s, sep) IN
    IF i = 0 THEN <<s>>
    ELSE <<SubSeq(s, 1, i - 1), SubSeq(s, i + 1, Len(s))>>

\* base64.StdEncoding.DecodeString on the encoded words of the model: each
\* word stands for a block of base64 text, anything else is not base64.
B64Words ==
  ("ZGlnaTpLMQ" :> <<AUTH_USER, ":", "K1">>) @@
  ("ZGlnaTpLMg" :> <<AUTH_USER, ":", "K2">>) @@
  ("b3RoZXI6SzE" :> <<"other", ":", "K1">>) @@
  ("ZGlnaQ" :> <<AUTH_USER>>)

RECURSIVE DecodeWords(_)
DecodeWords(s) ==
  IF s = <<>> THEN <<>> ELSE B64Words[Head(s)] \o DecodeWords(Tail(s))

DecodeString(s) ==
  IF \A i \in 1..Len(s) : s[i] \in DOMAIN B64Words
    THEN [err |-> FALSE, b |-> DecodeWords(s)]
    ELSE [err |-> TRUE, b |-> <<>>]

\* ------------------------------------------------------------------------
\* Authentication
\* ------------------------------------------------------------------------

checkAuth(authorization, cfg) ==
  LET s == SplitN2(authorization, " ") IN
    IF Len(s) # 2 THEN FALSE
    ELSE LET d == DecodeString(s[2]) IN
      IF d.err THEN FALSE
      ELSE LET pair == SplitN2(d.b, ":") IN
        IF Len(pair) # 2 THEN FALSE
        ELSE pair[1] = <<AUTH_USER>> /\ pair[2] = <<cfg.ApiKey>>


\* ------------------------------------------------------------------------
\* Requests, tasks and errors
\* ------------------------------------------------------------------------

\* A Go error is its message, a sequence of text pieces; nil is <<>>.
Nil == <<>>

\* The Authorization headers a client sends (<<>>: no header).
AuthHeaders ==
  { <<>>,
    <<"Basic">>,
    <<"Basic", " ", "ZGlnaTpLMQ">>,
    <<"Basic", " ", "ZGlnaTpLMg">>,
    <<"Basic", " ", "b3RoZXI6SzE">>,
    <<"Basic", " ", "ZGlnaQ">>,
    <<"Basic", " ", "%%%">>,
    <<"Basic", " ", " ", "ZGlnaTpLMQ">>,
    <<"Bearer", " ", "ZGlnaTpLMQ">> }

Paths == {"/", "/task"}

ApiKeys == {"K1", "K2"}

\* The raw "config" member of a task: absent, JSON that does not decode
\* into a TaskDbConfig, or an object with a driver name and a DSN.
RawConfigs ==
  { [raw |-> "absent", type |-> "", dsn |-> ""],
    [raw |-> "undecodable", type |-> "", dsn |-> ""],
    [raw |-> "object", type |-> "mysql", dsn |-> "good"],
    [raw |-> "object", type |-> "mssql", dsn |-> "good"],
    [raw |-> "object", type |-> "oracle", dsn |-> "good"],
    [raw |-> "object", type |-> "mysql", dsn |-> "malformed"],
    [raw |-> "object", type |-> "mysql", dsn |-> "down"] }

TaskTypes ==
  { TASK_TYPE_DB_MYSQL_QUERY, TASK_TYPE_DB_MYSQL_EXEC,
    TASK_TYPE_DB_MSSQL_QUERY, TASK_TYPE_DB_MSSQL_EXEC, "bogus.query", "" }

Payloads ==
  {"SELECT x, y FROM t", "SELECT x FROM t", "UPDATE t SET x = 1", "SELEC"}

ZeroConfig == [raw |-> "absent", type |-> "", dsn |-> ""]

\* How the bytes of a body are laid out: a document of docLen bytes, one
\* byte under, at or over the cap, followed by tailLen bytes that are all
\* white space or are not ("garbage").
Layouts ==
  { l \in [docLen : {BodyLimit - 1, BodyLimit, BodyLimit + 1},
           tailLen : 0..MaxTail, tail : {"none", "space", "garbage"}] :
      (l.tailLen = 0) <=> (l.tail = "none") }

\* The request bodies a client sends: a document that is not JSON, JSON
\* that is not a Task object, or a Task object, in every layout.
Bodies ==
  { [json |-> c.json, type |-> c.type, config |-> c.config,
     payload |-> c.payload, docLen |-> l.docLen, tailLen |-> l.tailLen,
     tail |-> l.tail] :
      c \in { [json |-> "syntax", type |-> "", config |-> ZeroConfig,
               payload |-> ""],
              [json |-> "mismatch", type |-> "", config |-> ZeroConfig,
               payload |-> ""] }
             \cup [json : {"object"}, type : TaskTypes, config : RawConfigs,
                   payload : Payloads],
      l \in Layouts }

\* The number of bytes of a body.
Size(b) == b.docLen + b.tailLen

\* ioutil.ReadAll without the io.LimitReader.
limitRead_unlimited(b) == b

\* ioutil.ReadAll(io.LimitReader(r.Body, 1048576)): the first BodyLimit
\* bytes of the body and no error. A document cut short is not JSON.
limitRead(b) ==
  IF Size(b) <= BodyLimit THEN b
  ELSE IF b.docLen > BodyLimit
    THEN [json |-> "syntax", type |-> "", config |-> ZeroConfig,
          payload |-> "", docLen |-> BodyLimit, tailLen |-> 0, tail |-> "none"]
    ELSE [b EXCEPT !.tailLen = BodyLimit - b.docLen,
                   !.tail = IF BodyLimit - b.docLen = 0 THEN "none" ELSE @]

ZeroTask == [RawConfig |-> ZeroConfig, Type |-> "", Payload |-> ""]

\* parseTask with the decode error dropped.
parseTask_errorDropped(data) ==
  IF data.json = "object"
    THEN [task |-> [RawConfig |-> data.config, Type |-> data.type,
                    Payload |-> data.payload],
          err |-> Nil]
    ELSE [task |-> ZeroTask, err |-> Nil]

parseTask(data) ==
  IF data.tail = "garbage"
    THEN [task |-> ZeroTask,
          err |-> <<"invalid character after top-level value">>]
  ELSE IF data.json = "object"
    THEN [task |-> [RawConfig |-> data.config, Type |-> data.type,
                    Payload |-> data.payload],
          err |-> Nil]
    ELSE IF data.json = "syntax"
      THEN [task |-> ZeroTask, err |-> <<"invalid character">>]
      ELSE [task |-> ZeroTask, err |-> <<"json: cannot unmarshal">>]

\* The decoded config and the decode error that errCheck logs.
getTaskDbConfig(task) ==
  IF task.RawConfig.raw = "object"
    THEN [dbConfig |-> [Type |-> task.RawConfig.type, Dsn |-> task.RawConfig.dsn],
          logged |-> {}]
    ELSE [dbConfig |-> [Type |-> "", Dsn |-> ""],
          logged |-> {IF task.RawConfig.raw = "absent"
                        THEN <<"unexpected end of JSON input">>
                        ELSE <<"json: cannot unmarshal">>}]

\* sql.Open: an unregistered driver name fails at once; a driver that parses
\* the DSN when opened (eager) rejects a malformed one at once, one that
\* parses on first use hands out a handle.
sqlOpen(driverName, dsn, eager) ==
  IF driverName \notin RegisteredDrivers
    THEN [db |-> "nil", err |-> <<"sql: unknown driver ", driverName>>]
    ELSE IF eager /\ dsn = "malformed"
      THEN [db |-> "nil", err |-> <<"invalid DSN">>]
      ELSE [db |-> "open", err |-> Nil]

\* errCheck: the error is logged and nothing else happens.
errCheck(err) == IF err # Nil THEN {err} ELSE {}

\* initDbConnection giving up when the config does not decode.
initDbConnection_stopsOnConfigError(task, eager) ==
  LET c == getTaskDbConfig(task)
      o == sqlOpen(c.dbConfig.Type, c.dbConfig.Dsn, eager)
  IN IF c.logged # {}
       THEN [db |-> "nil", logged |-> c.logged, opens |-> 0,
             opened |-> [Type |-> "", Dsn |-> ""]]
       ELSE [db |-> o.db, logged |-> c.logged \cup errCheck(o.err),
             opens |-> 1, opened |-> c.dbConfig]

\* The handle, what errCheck logged, and the one call of sql.Open with its
\* arguments.
initDbConnection(task, eager) ==
  LET c == getTaskDbConfig(task)
      o == sqlOpen(c.dbConfig.Type, c.dbConfig.Dsn, eager)
  IN [db |-> o.db, logged |-> c.logged \cup errCheck(o.err),
      opens |-> 1, opened |-> c.dbConfig]

\* The deferred db.Close() left out.
dbClose_missing(db) == db

\* The deferred db.Close().
dbClose(db) == IF db = "open" THEN "closed" ELSE db

\* The error a statement meets when it is first sent over the session.
connErr(dsn) ==
  IF dsn = "malformed" THEN <<"invalid DSN">>
  ELSE IF dsn = "down" THEN <<"dial tcp: connection refused">>
  ELSE Nil

sqlErr(payload) == IF payload = "SELEC" THEN <<"syntax error">> ELSE Nil

\* The error db.Query / db.Exec returns for a statement over a session.
stmtErr(dsn, payload) ==
  IF connErr(dsn) # Nil THEN connErr(dsn) ELSE sqlErr(payload)

\* The result columns of a statement.
Columns(payload) ==
  IF payload = "SELECT x, y FROM t" THEN <<"x", "y">>
  ELSE IF payload = "SELECT x FROM t" THEN <<"x">>
  ELSE <<>>


\* ------------------------------------------------------------------------
\* Driver outcomes
\* ------------------------------------------------------------------------

\* What a driver hands back for one statement: for a query the cursor (n
\* rows, the rows whose scan fails, whether the cursor itself fails), for
\* an exec the two lookups of its sql.Result, each a value and an error flag.
NoOutcome ==
  [kind |-> "none", payload |-> "", n |-> 0, bad |-> {}, failed |-> FALSE,
   lastInsertId |-> [val |-> 0, err |-> FALSE],
   rowsAffected |-> [val |-> 0, err |-> FALSE]]

Cursors(payload) ==
  { c \in { [NoOutcome EXCEPT !.kind = "rows", !.payload = payload, !.n = n,
                               !.bad = b, !.failed = f] :
              n \in 0..MaxRows, b \in SUBSET (1..MaxRows), f \in BOOLEAN } :
      c.bad \subseteq 1..c.n }

\* LastInsertId(): go-sql-driver/mysql always has one; go-mssqldb reports
\* an error when there is none, with -1 or 0 as the value beside the error.
LastInsertIds(driverName) ==
  { [val |-> v, err |-> FALSE] : v \in 0..MaxCount }
  \cup (IF driverName = "mssql"
          THEN { [val |-> v, err |-> TRUE] : v \in {0 - 1, 0} }
          ELSE {})

\* RowsAffected(): a count, or 0 beside an error when the statement has none.
RowsAffecteds ==
  { [val |-> v, err |-> FALSE] : v \in 0..MaxCount }
  \cup { [val |-> 0, err |-> TRUE] }

Results(driverName) ==
  { [NoOutcome EXCEPT !.kind = "result", !.lastInsertId = l, !.rowsAffected = a] :
      l \in LastInsertIds(driverName), a \in RowsAffecteds }

\* ------------------------------------------------------------------------
\* Response bodies
\* ------------------------------------------------------------------------

NoBody ==
  [kind |-> "nil", text |-> <<>>, rows |-> <<>>,
   last_insert_id |-> 0, rows_affected |-> 0]

TextBody(t) == [NoBody EXCEPT !.kind = "text", !.text = t]
RowsBody(rows) == [NoBody EXCEPT !.kind = "rows", !.rows = rows]

\* DbExecResult
DbExecResult(lastInsertId, rowsAffected) ==
  [NoBody EXCEPT !.kind = "exec", !.last_insert_id = lastInsertId,
                 !.rows_affected = rowsAffected]

\* ------------------------------------------------------------------------
\* Row mapper
\* ------------------------------------------------------------------------

\* The text of the cell in row i, column j of a statement's result.
Cell(payload, i, j) == <<payload, i, j>>

\* One row as a mapping from column name to text.
MapRow(payload, i) ==
  LET cols == Columns(payload) IN
    [c \in {cols[j] : j \in 1..Len(cols)} |->
       Cell(payload, i, CHOOSE j \in 1..Len(cols) : cols[j] = c)]

RECURSIVE MapFrom(_, _)
MapFrom(cur, i) ==
  IF i > cur.n THEN <<>>
  ELSE IF i \in cur.bad THEN MapFrom(cur, i + 1)
  ELSE <<MapRow(cur.payload, i)>> \o MapFrom(cur, i + 1)

\* mapquery.MapRows: the rows that scan, in cursor order; a row that does
\* not scan is logged and left out; a failure of the cursor is returned.
MapRows(cur) ==
  [rows |-> MapFrom(cur, 1),
   err |-> IF cur.failed THEN <<"sql: Rows are closed">> ELSE Nil,
   logged |-> { <<"row scan failed", i>> : i \in cur.bad }]

\* ------------------------------------------------------------------------
\* Task executor
\* ------------------------------------------------------------------------

\* The switch on task.Type with the query path as its default.
taskKind_defaultQuery(type) ==
  IF type \in {TASK_TYPE_DB_MYSQL_EXEC, TASK_TYPE_DB_MSSQL_EXEC} THEN "exec"
  ELSE "query"

\* The switch on task.Type.
taskKind(type) ==
  IF type \in {TASK_TYPE_DB_MYSQL_QUERY, TASK_TYPE_DB_MSSQL_QUERY} THEN "query"
  ELSE IF type \in {TASK_TYPE_DB_MYSQL_EXEC, TASK_TYPE_DB_MSSQL_EXEC} THEN "exec"
  ELSE "unknown"

\* processDbQuery returning nil in place of the mapped rows.
processDbQuery_nilRows(db, e, cur) ==
  IF e # Nil
    THEN [response |-> NoBody, err |-> e, db |-> dbClose(db), logged |-> {}]
    ELSE LET m == MapRows(cur) IN
      [response |-> NoBody, err |-> m.err, db |-> dbClose(db),
       logged |-> m.logged]

\* processDbQuery failing the query when a row was left out.
processDbQuery_strict(db, e, cur) ==
  IF e # Nil
    THEN [response |-> NoBody, err |-> e, db |-> dbClose(db), logged |-> {}]
    ELSE LET m == MapRows(cur) IN
      [response |-> RowsBody(m.rows),
       err |-> IF m.err = Nil /\ Len(m.rows) # cur.n
                 THEN <<"row mapping failed">> ELSE m.err,
       db |-> dbClose(db), logged |-> m.logged]

\* processDbQuery from db.Query on: e is the error of db.Query, cur the
\* cursor it returned when there was none.
processDbQuery(db, e, cur) ==
  IF e # Nil
    THEN [response |-> NoBody, err |-> e, db |-> dbClose(db), logged |-> {}]
    ELSE LET m == MapRows(cur) IN
      [response |-> RowsBody(m.rows), err |-> m.err, db |-> dbClose(db),
       logged |-> m.logged]

\* processDbExec from db.Exec on: e is the error of db.Exec, res the
\* sql.Result it returned when there was none.
processDbExec(db, e, res) ==
  IF e # Nil
    THEN [response |-> DbExecResult(0, 0), err |-> e, db |-> dbClose(db),
          logged |-> {}]
    ELSE [response |-> DbExecResult(res.lastInsertId.val, res.rowsAffected.val),
          err |-> Nil, db |-> dbClose(db), logged |-> {}]

\* fmt.Errorf("Database error: %s", err) when err is not nil.
databaseError(err) == IF err # Nil THEN <<"Database error: ">> \o err ELSE Nil

\* ------------------------------------------------------------------------
\* Request handlers
\* ------------------------------------------------------------------------

NoResponse ==
  [sent |-> FALSE, status |-> 0, contentType |-> "", wwwAuthenticate |-> "",
   json |-> FALSE, type |-> "", body |-> NoBody]

\* writeResponse: the envelope is encoded as JSON after the header.
writeResponse(status, response) ==
  [sent |-> TRUE, status |-> status,
   contentType |-> "application/json; charset=UTF-8", wwwAuthenticate |-> "",
   json |-> TRUE, type |-> response.Type, body |-> response.Body]

\* The answer of handleAuthMiddleware when checkAuth fails.
unauthorized ==
  [sent |-> TRUE, status |-> StatusUnauthorized,
   contentType |-> "text/plain; charset=utf-8",
   wwwAuthenticate |-> "Basic realm=\"MY REALM\"",
   json |-> FALSE, type |-> "", body |-> TextBody(<<"401 Unauthorized\n">>)]

handleRoot ==
  writeResponse(StatusOK,
    [Type |-> "success", Body |-> TextBody(<<"Digistorm Connector Online">>)])

\* handleTask answering an error with status 200.
handleTask_errorAs200(rawResponse, err) ==
  IF err # Nil
    THEN writeResponse(StatusOK, [Type |-> "error", Body |-> TextBody(err)])
    ELSE writeResponse(StatusOK, [Type |-> "success", Body |-> rawResponse])

\* handleTask from the return of processTaskRequest on.
handleTask(rawResponse, err) ==
  IF err # Nil
    THEN writeResponse(StatusInternalServerError,
           [Type |-> "error", Body |-> TextBody(err)])
    ELSE writeResponse(StatusOK, [Type |-> "success", Body |-> rawResponse])


\* ------------------------------------------------------------------------
\* State
\* ------------------------------------------------------------------------

VARIABLES
  config,   \* the process-wide ConnectorConfig
  pc,       \* where each request goroutine is
  req,      \* the request line and Authorization header it serves
  data,     \* the request body it read
  task,     \* the Task it decoded
  db,       \* its *sql.DB: "none", "nil", "open" or "closed"
  outcome,  \* what the driver handed back for its statement
  ret,      \* what processTaskRequest returned
  resp,     \* what it wrote to the http.ResponseWriter
  hist,     \* what has happened while it was handled
  log       \* the errors logged while it was handled

vars == <<config, pc, req, data, task, db, outcome, ret, resp, hist, log>>

NoData ==
  [json |-> "unread", type |-> "", config |-> ZeroConfig, payload |-> "",
   docLen |-> 0, tailLen |-> 0, tail |-> "none"]

NoRequest == [path |-> "", auth |-> <<>>, body |-> NoData]

NoReturn == [returned |-> FALSE, response |-> NoBody, err |-> Nil]

NoHist ==
  [handler |-> "none", parsed |-> 0, configs |-> 0, opens |-> 0, stmts |-> 0,
   closes |-> 0, panicked |-> FALSE,
   openedWith |-> [Type |-> "", Dsn |-> ""]]

Init ==
  /\ config \in [ApiKey : ApiKeys, Host : {HOST}, Port : {PORT}]
  /\ pc = [r \in Reqs |-> "idle"]
  /\ req = [r \in Reqs |-> NoRequest]
  /\ data = [r \in Reqs |-> NoData]
  /\ task = [r \in Reqs |-> ZeroTask]
  /\ db = [r \in Reqs |-> "none"]
  /\ outcome = [r \in Reqs |-> NoOutcome]
  /\ ret = [r \in Reqs |-> NoReturn]
  /\ resp = [r \in Reqs |-> NoResponse]
  /\ hist = [r \in Reqs |-> NoHist]
  /\ log = [r \in Reqs |-> {}]

\* The server accepts a request and starts a goroutine for it.
Accept(r) ==
  /\ pc[r] = "idle"
  /\ \E p \in Paths, a \in AuthHeaders :
       req' = [req EXCEPT ![r] = [path |-> p, auth |-> a, body |-> NoData]]
  /\ pc' = [pc EXCEPT ![r] = "auth"]
  /\ UNCHANGED <<config, data, task, db, outcome, ret, resp, hist, log>>

\* The handler the mux registrations give a path: "/task" alone goes to
\* handleTask, every other path falls to the "/" pattern.
route(path) == IF path = "/task" THEN "handleTask" ELSE "handleRoot"

handleAuthMiddleware(r) ==
  /\ pc[r] = "auth"
  /\ IF checkAuth(req[r].auth, config)
       THEN /\ pc' = [pc EXCEPT ![r] = route(req[r].path)]
            /\ hist' = [hist EXCEPT ![r].handler = route(req[r].path)]
            /\ resp' = resp
       ELSE /\ pc' = [pc EXCEPT ![r] = "done"]
            /\ resp' = [resp EXCEPT ![r] = unauthorized]
            /\ hist' = hist
  /\ UNCHANGED <<config, req, data, task, db, outcome, ret, log>>

HandleRoot(r) ==
  /\ pc[r] = "handleRoot"
  /\ resp' = [resp EXCEPT ![r] = handleRoot]
  /\ pc' = [pc EXCEPT ![r] = "done"]
  /\ UNCHANGED <<config, req, data, task, db, outcome, ret, hist, log>>

\* processTaskRequest returns (response, err) and handleTask answers.
Return(r, response, err) ==
  /\ ret' = [ret EXCEPT ![r] = [returned |-> TRUE, response |-> response,
                                err |-> err]]
  /\ resp' = [resp EXCEPT ![r] = handleTask(response, err)]
  /\ pc' = [pc EXCEPT ![r] = "done"]

\* Reading the body fails, or closing it does.
ReadFails(r) ==
  /\ pc[r] = "handleTask"
  /\ \E e \in {<<"unexpected EOF">>, <<"http: invalid Read on closed Body">>} :
       Return(r, NoBody, e)
  /\ UNCHANGED <<config, req, data, task, db, outcome, hist, log>>

\* processTaskRequest up to the switch on the task type.
processTaskRequest(r) ==
  /\ pc[r] = "handleTask"
  /\ \E body \in Bodies :
       LET p == parseTask(limitRead(body)) IN
         /\ req' = [req EXCEPT ![r].body = body]
         /\ data' = [data EXCEPT ![r] = limitRead(body)]
         /\ hist' = [hist EXCEPT ![r].parsed = @ + 1]
         /\ IF p.err # Nil
              THEN /\ Return(r, NoBody,
                             <<"Unable to parse JSON request body: ">> \o p.err)
                   /\ task' = task
              ELSE /\ task' = [task EXCEPT ![r] = p.task]
                   /\ IF taskKind(p.task.Type) = "unknown"
                        THEN Return(r, NoBody,
                                    <<"Unknown task type: ", p.task.Type>>)
                        ELSE /\ pc' = [pc EXCEPT ![r] = "open"]
                             /\ UNCHANGED <<ret, resp>>
  /\ UNCHANGED <<config, db, outcome, log>>

\* InitDbConnection with the task's config assigned to the process-wide
\* config instead of to a local of the same name.
InitDbConnection_writesConfig(r) ==
  /\ pc[r] = "open"
  /\ \E eager \in BOOLEAN :
       LET i == initDbConnection(task[r], eager) IN
         /\ db' = [db EXCEPT ![r] = i.db]
         /\ log' = [log EXCEPT ![r] = @ \cup i.logged]
         /\ config' = [config EXCEPT !.Host = i.opened.Dsn]
         /\ IF i.db = "nil"
              THEN /\ pc' = [pc EXCEPT ![r] = "done"]
                   /\ hist' = [hist EXCEPT ![r].configs = @ + 1,
                                           ![r].opens = @ + i.opens,
                                           ![r].openedWith = i.opened,
                                           ![r].panicked = TRUE]
              ELSE /\ pc' = [pc EXCEPT ![r] = taskKind(task[r].Type)]
                   /\ hist' = [hist EXCEPT ![r].configs = @ + 1,
                                           ![r].opens = @ + i.opens,
                                           ![r].openedWith = i.opened]
  /\ UNCHANGED <<req, data, task, outcome, ret, resp>>

\* initDbConnection, then db.SetMaxIdleConns(100) and the defer of
\* db.Close(): on a nil handle SetMaxIdleConns panics, the server recovers
\* the panic and drops the connection without an answer.
InitDbConnection(r) ==
  /\ pc[r] = "open"
  /\ \E eager \in BOOLEAN :
       LET i == initDbConnection(task[r], eager) IN
         /\ db' = [db EXCEPT ![r] = i.db]
         /\ log' = [log EXCEPT ![r] = @ \cup i.logged]
         /\ IF i.db = "nil"
              THEN /\ pc' = [pc EXCEPT ![r] = "done"]
                   /\ hist' = [hist EXCEPT ![r].configs = @ + 1,
                                           ![r].opens = @ + i.opens,
                                           ![r].openedWith = i.opened,
                                           ![r].panicked = TRUE]
              ELSE /\ pc' = [pc EXCEPT ![r] = taskKind(task[r].Type)]
                   /\ hist' = [hist EXCEPT ![r].configs = @ + 1,
                                           ![r].opens = @ + i.opens,
                                           ![r].openedWith = i.opened]
  /\ UNCHANGED <<config, req, data, task, outcome, ret, resp>>

\* The DSN read from a config that all requests share.
Dsn_shared(r) == getTaskDbConfig(task[1]).dbConfig.Dsn

\* The DSN and the driver name of the session of request r.
Dsn(r) == getTaskDbConfig(task[r]).dbConfig.Dsn
Driver(r) == getTaskDbConfig(task[r]).dbConfig.Type

\* processDbQuery and its caller once it has returned.
QueryReturns(r, q) ==
  /\ db' = [db EXCEPT ![r] = q.db]
  /\ log' = [log EXCEPT ![r] = @ \cup q.logged]
  /\ Return(r, q.response, databaseError(q.err))

\* db.Query: it fails and processDbQuery returns, or it hands out a cursor.
DbQuery(r) ==
  /\ pc[r] = "query"
  /\ LET e == stmtErr(Dsn(r), task[r].Payload) IN
       IF e # Nil
         THEN /\ QueryReturns(r, processDbQuery(db[r], e, NoOutcome))
              /\ hist' = [hist EXCEPT ![r].stmts = @ + 1,
                                      ![r].closes = @ + 1]
              /\ outcome' = outcome
         ELSE /\ \E cur \in Cursors(task[r].Payload) :
                   outcome' = [outcome EXCEPT ![r] = cur]
              /\ pc' = [pc EXCEPT ![r] = "map"]
              /\ hist' = [hist EXCEPT ![r].stmts = @ + 1]
              /\ UNCHANGED <<db, log, ret, resp>>
  /\ UNCHANGED <<config, req, data, task>>

\* mapquery.MapRows over the cursor, and the return of processDbQuery.
DbMapRows(r) ==
  /\ pc[r] = "map"
  /\ QueryReturns(r, processDbQuery(db[r], Nil, outcome[r]))
  /\ hist' = [hist EXCEPT ![r].closes = @ + 1]
  /\ UNCHANGED <<config, req, data, task, outcome>>

\* db.Exec, the two lookups and the return of processDbExec.
DbExec(r) ==
  /\ pc[r] = "exec"
  /\ LET e == stmtErr(Dsn(r), task[r].Payload) IN
       \E res \in IF e # Nil THEN {NoOutcome} ELSE Results(Driver(r)) :
         /\ outcome' = [outcome EXCEPT ![r] = res]
         /\ QueryReturns(r, processDbExec(db[r], e, res))
  /\ hist' = [hist EXCEPT ![r].stmts = @ + 1, ![r].closes = @ + 1]
  /\ UNCHANGED <<config, req, data, task>>

\* The goroutine ends; the next request starts from nothing.
Finish(r) ==
  /\ pc[r] = "done"
  /\ pc' = [pc EXCEPT ![r] = "idle"]
  /\ req' = [req EXCEPT ![r] = NoRequest]
  /\ data' = [data EXCEPT ![r] = NoData]
  /\ task' = [task EXCEPT ![r] = ZeroTask]
  /\ db' = [db EXCEPT ![r] = "none"]
  /\ outcome' = [outcome EXCEPT ![r] = NoOutcome]
  /\ ret' = [ret EXCEPT ![r] = NoReturn]
  /\ resp' = [resp EXCEPT ![r] = NoResponse]
  /\ hist' = [hist EXCEPT ![r] = NoHist]
  /\ log' = [log EXCEPT ![r] = {}]
  /\ UNCHANGED config

Step(r) ==
  \/ Accept(r)
  \/ handleAuthMiddleware(r)
  \/ HandleRoot(r)
  \/ ReadFails(r)
  \/ processTaskRequest(r)
  \/ InitDbConnection(r)
  \/ DbQuery(r)
  \/ DbMapRows(r)
  \/ DbExec(r)
  \/ Finish(r)

\* One request at a time.
Next == Step(1)

Spec == Init /\ [][Next]_vars

\* ------------------------------------------------------------------------
\* Concurrent requests
\* ------------------------------------------------------------------------

\* Largest number of rows a query returns while requests interleave.
MaxConcRows == 1

\* The inputs of interleaved requests: a rejected and an accepted header,
\* query and exec tasks over a reachable and an unreachable database, and a
\* task without config.
ConcHeaders == { <<>>, <<"Basic", " ", "ZGlnaTpLMQ">> }

ConcConfigs ==
  { [raw |-> "absent", type |-> "", dsn |-> ""],
    [raw |-> "object", type |-> "mysql", dsn |-> "good"],
    [raw |-> "object", type |-> "mysql", dsn |-> "down"] }

ConcBodies ==
  { b \in Bodies :
      /\ b.json = "object"
      /\ b.type \in {TASK_TYPE_DB_MYSQL_QUERY, TASK_TYPE_DB_MYSQL_EXEC}
      /\ b.config \in ConcConfigs
      /\ b.payload \in {"SELECT x, y FROM t", "SELECT x FROM t"}
      /\ b.docLen = BodyLimit - 1
      /\ b.tailLen = 0 }

ConcInputs ==
  \A q \in Reqs :
    /\ req[q].auth \in ConcHeaders
    /\ data[q] = NoData \/ data[q] \in ConcBodies
    /\ outcome[q].n <= MaxConcRows
    /\ ~outcome[q].failed
    /\ outcome[q].lastInsertId.val = 0
    /\ ~outcome[q].rowsAffected.err

InitConc == Init /\ config.ApiKey = "K1"

\* The server runs the goroutines of its requests in any interleaving.
ConcStep(r) ==
  \/ Accept(r) /\ ConcInputs'
  \/ handleAuthMiddleware(r) /\ ConcInputs'
  \/ HandleRoot(r) /\ ConcInputs'
  \/ ReadFails(r) /\ ConcInputs'
  \/ processTaskRequest(r) /\ ConcInputs'
  \/ InitDbConnection(r) /\ ConcInputs'
  \/ DbQuery(r) /\ ConcInputs'
  \/ DbMapRows(r) /\ ConcInputs'
  \/ DbExec(r) /\ ConcInputs'
  \/ Finish(r) /\ ConcInputs'

NextConc == \E r \in Reqs : ConcStep(r)

SpecConc == InitConc /\ [][NextConc]_vars


\* ------------------------------------------------------------------------
\* Properties
\* ------------------------------------------------------------------------

SupportedTypes ==
  { TASK_TYPE_DB_MYSQL_QUERY, TASK_TYPE_DB_MYSQL_EXEC,
    TASK_TYPE_DB_MSSQL_QUERY, TASK_TYPE_DB_MSSQL_EXEC }

\* The response is a JSON error envelope with status 500.
IsError500(w) ==
  /\ w.sent /\ w.json
  /\ w.status = StatusInternalServerError
  /\ w.type = "error"
  /\ w.body.kind = "text"

\* The response is a JSON success envelope with status 200.
IsSuccess200(w) ==
  /\ w.sent /\ w.json
  /\ w.status = StatusOK
  /\ w.type = "success"

\* No database work was done for request r.
NoDbWork(r) ==
  /\ hist[r].configs = 0
  /\ hist[r].opens = 0
  /\ hist[r].stmts = 0
  /\ db[r] = "none"

\* The bytes read decode into a Task.
Decodes(d) == d.json = "object" /\ d.tail # "garbage"

\* C1: a task whose decoded type is none of the four supported types is
\* answered with status 500 and the error envelope "Unknown task type:
\* <type>", and no database connection is opened while it is handled.
C1_UnknownTaskType ==
  \A r \in Reqs :
    (Decodes(data[r]) /\ data[r].type \notin SupportedTypes) =>
      /\ IsError500(resp[r])
      /\ resp[r].body.text = <<"Unknown task type: ", data[r].type>>
      /\ hist[r].opens = 0
      /\ db[r] = "none"

C1_Witness ==
  \E r \in Reqs :
    /\ Decodes(data[r])
    /\ data[r].type = "bogus.query"
    /\ resp[r].sent

\* C2: a body that is not valid JSON for a Task is answered with status
\* 500 and an error envelope that reports the parse failure, and nothing is
\* done on a database: no config is parsed, no connection is opened, no SQL
\* is executed.
C2_MalformedRequest ==
  \A r \in Reqs :
    (data[r].json \in {"syntax", "mismatch"} \/ data[r].tail = "garbage") =>
      /\ IsError500(resp[r])
      /\ Head(resp[r].body.text) = "Unable to parse JSON request body: "
      /\ NoDbWork(r)

C2_Witness ==
  \E r \in Reqs :
    /\ data[r].json = "syntax"
    /\ resp[r].sent
    /\ hist[r].parsed = 1

\* C3: every response the server sends, from the authentication wrapper,
\* the root handler or the task handler, is a JSON envelope whose type is
\* "success" or "error".
C3_EveryResponseIsEnvelope ==
  \A r \in Reqs :
    resp[r].sent =>
      /\ resp[r].json
      /\ resp[r].type \in {"success", "error"}

\* C4: once the task executor has returned, the answer is status 200 with
\* a "success" envelope around its result when it returned no error, and
\* status 500 with an "error" envelope around the error's message when it
\* returned one; the task handler sends no other answer.
C4_StatusAgreesWithEnvelope ==
  \A r \in Reqs :
    /\ ret[r].returned =>
         IF ret[r].err = Nil
           THEN IsSuccess200(resp[r]) /\ resp[r].body = ret[r].response
           ELSE IsError500(resp[r]) /\ resp[r].body.text = ret[r].err
    /\ (hist[r].handler = "handleTask" /\ resp[r].sent) =>
         /\ ret[r].returned
         /\ <<resp[r].status, resp[r].type>> \in
              { <<StatusOK, "success">>, <<StatusInternalServerError, "error">> }

C4_Witness ==
  \E r \in Reqs :
    /\ ret[r].returned
    /\ hist[r].stmts = 1
    /\ ret[r].err # Nil
    /\ resp[r].status = StatusInternalServerError

\* The header carries HTTP Basic credentials of the fixed user with the
\* given key: the scheme Basic, one space, base64 of "user:key".
IsBasicCredentials(authorization, key) ==
  /\ Len(authorization) = 3
  /\ authorization[1] = "Basic"
  /\ authorization[2] = " "
  /\ authorization[3] \in DOMAIN B64Words
  /\ B64Words[authorization[3]] = <<AUTH_USER, ":", key>>

\* C5: a request whose Basic credentials are missing, malformed or not the
\* fixed user with the configured key never reaches a handler and is
\* answered 401 with a WWW-Authenticate header; a request with matching
\* credentials reaches its handler.
C5_OnlyBasicCredentialsPass ==
  \A r \in Reqs :
    pc[r] \notin {"idle", "auth"} =>
      IF IsBasicCredentials(req[r].auth, config.ApiKey)
        THEN hist[r].handler # "none"
        ELSE /\ hist[r].handler = "none"
             /\ hist[r].parsed = 0
             /\ NoDbWork(r)
             /\ resp[r].status = StatusUnauthorized
             /\ resp[r].wwwAuthenticate # ""

\* C6: a session opened by the task executor is closed by the time the
\* executor has returned, whether it returns a result, a query or exec
\* error, or a row-mapping error; no session is open after the return.
C6_SessionClosedOnReturn ==
  \A r \in Reqs :
    /\ ret[r].returned => db[r] # "open"
    /\ pc[r] = "done" => db[r] # "open"
    /\ (ret[r].returned /\ hist[r].opens > 0) =>
         (db[r] = "closed" /\ hist[r].closes = 1)

C6_Witness ==
  \E r \in Reqs :
    /\ ret[r].returned
    /\ outcome[r].kind = "rows"
    /\ outcome[r].failed
    /\ ret[r].err # Nil
    /\ db[r] = "closed"

\* The session of request r was asked for with an unregistered driver name
\* or a malformed DSN.
BadSessionConfig(r) ==
  /\ hist[r].opens > 0
  /\ \/ Driver(r) \notin RegisteredDrivers
     \/ Dsn(r) = "malformed"

\* C7: when the driver name is unrecognized or the DSN malformed, the
\* failure comes back to the caller as an error of the task executor, in
\* an error envelope, whether it shows at open or only at query/exec time.
C7_ConnectionErrorReturned ==
  \A r \in Reqs :
    (pc[r] = "done" /\ BadSessionConfig(r)) =>
      /\ ret[r].returned
      /\ ret[r].err # Nil
      /\ IsError500(resp[r])

\* C8: an exec task whose statement runs without error answers with both
\* last_insert_id and rows_affected; a lookup for which the driver reports
\* an error gives 0 in its field, and the exec still succeeds.
C8_ExecResultDefaultsToZero ==
  \A r \in Reqs :
    (ret[r].returned /\ outcome[r].kind = "result") =>
      /\ IsSuccess200(resp[r])
      /\ resp[r].body.kind = "exec"
      /\ outcome[r].lastInsertId.err => resp[r].body.last_insert_id = 0
      /\ outcome[r].rowsAffected.err => resp[r].body.rows_affected = 0
      /\ ~outcome[r].lastInsertId.err =>
           resp[r].body.last_insert_id = outcome[r].lastInsertId.val
      /\ ~outcome[r].rowsAffected.err =>
           resp[r].body.rows_affected = outcome[r].rowsAffected.val

\* The query of request r ran and its cursor did not fail.
QuerySucceeded(r) ==
  /\ ret[r].returned
  /\ outcome[r].kind = "rows"
  /\ ~outcome[r].failed

\* The column names of the statement of request r.
ColumnNames(r) ==
  {Columns(task[r].Payload)[j] : j \in 1..Len(Columns(task[r].Payload))}

\* The rows of the cursor of request r that scan, in cursor order.
RECURSIVE GoodRows(_, _)
GoodRows(r, i) ==
  IF i > outcome[r].n THEN <<>>
  ELSE IF i \in outcome[r].bad THEN GoodRows(r, i + 1)
  ELSE <<i>> \o GoodRows(r, i + 1)

Executed(r) == ret[r].returned /\ hist[r].stmts = 1

\* The answer of request r is the one its own task calls for: the error of
\* its own DSN and payload, or the rows or counts its own statement gave.
OwnResult(r) ==
  LET e == stmtErr(data[r].config.dsn, data[r].payload) IN
    IF e # Nil
      THEN /\ IsError500(resp[r])
           /\ resp[r].body.text = <<"Database error: ">> \o e
      ELSE /\ IsSuccess200(resp[r])
           /\ outcome[r].kind = "rows" =>
                /\ outcome[r].payload = data[r].payload
                /\ resp[r].body.kind = "rows"
                /\ \A k \in 1..Len(resp[r].body.rows) :
                     \A c \in DOMAIN resp[r].body.rows[k] :
                       resp[r].body.rows[k][c][1] = data[r].payload
           /\ outcome[r].kind = "result" =>
                /\ resp[r].body.kind = "exec"
                /\ resp[r].body.rows_affected = outcome[r].rowsAffected.val

\* A step changes the session, the driver outcome, the return value and
\* the answer of no request other than the one that takes it.
OwnSessionOnly ==
  \A q \in Reqs :
    (db'[q] # db[q] \/ outcome'[q] # outcome[q] \/ ret'[q] # ret[q]
       \/ resp'[q] # resp[q]) =>
      /\ pc[q] # "idle"
      /\ \A o \in Reqs \ {q} :
           /\ pc'[o] = pc[o] /\ db'[o] = db[o] /\ outcome'[o] = outcome[o]
           /\ ret'[o] = ret[o] /\ resp'[o] = resp[o]

\* C11: under any interleaving of concurrent tasks, a session is touched
\* only by steps of the request that created it, and each answer carries
\* the result or error of its own task and nothing of another's.
C11_NoCrossContamination ==
  /\ [](\A r \in Reqs : Executed(r) => OwnResult(r))
  /\ [][OwnSessionOnly]_vars

C11_Witness ==
  /\ pc[1] = "done" /\ pc[2] = "done"
  /\ Executed(1) /\ Executed(2)
  /\ data[1].config = data[2].config
  /\ data[1].payload = "SELECT x, y FROM t"
  /\ data[2].payload = "SELECT x FROM t"
  /\ outcome[1].kind = "rows" /\ outcome[1].n = 1 /\ outcome[1].bad = {}
  /\ outcome[2].kind = "rows" /\ outcome[2].n = 1 /\ outcome[2].bad = {}
  /\ resp[1].sent /\ resp[2].sent


\* Request r carries a task of a supported type that was dispatched.
Dispatched(r) ==
  /\ Decodes(data[r])
  /\ data[r].type \in SupportedTypes
  /\ pc[r] \in {"open", "query", "exec", "map", "done"}

\* C12: a dispatched task goes once through config parsing, session open,
\* execution and session close, in that order and without retry, and ends
\* in a result or an error: one session is opened, the payload is executed
\* at most once and only on the open session, and a finished task has
\* opened, executed, closed and returned.
C12_LinearNoRetry ==
  \A r \in Reqs :
    Dispatched(r) =>
      /\ hist[r].configs <= 1 /\ hist[r].opens <= 1
      /\ hist[r].stmts <= 1 /\ hist[r].closes <= 1
      /\ hist[r].opens <= hist[r].configs
      /\ hist[r].stmts <= hist[r].opens
      /\ hist[r].closes <= hist[r].stmts
      /\ pc[r] \in {"query", "exec"} =>
           (db[r] = "open" /\ hist[r].opens = 1 /\ hist[r].stmts = 0)
      /\ pc[r] = "map" => (db[r] = "open" /\ hist[r].stmts = 1)
      /\ pc[r] = "done" =>
           /\ hist[r].configs = 1 /\ hist[r].opens = 1
           /\ hist[r].stmts = 1 /\ hist[r].closes = 1
           /\ db[r] = "closed"
           /\ ret[r].returned


\* The answer of request r reports a failure to parse the body.
ParseFailureReported(r) ==
  /\ IsError500(resp[r])
  /\ Head(resp[r].body.text) = "Unable to parse JSON request body: "

\* C13 as stated: at most BodyLimit bytes of the body are read; a body of
\* at most BodyLimit bytes reaches the decoder unchanged; a longer one is
\* cut to BodyLimit bytes and the handler reports a JSON parse failure.
C13_LongBodyFailsToParse ==
  \A r \in Reqs :
    hist[r].parsed = 1 =>
      /\ Size(data[r]) <= BodyLimit
      /\ Size(req[r].body) <= BodyLimit => data[r] = req[r].body
      /\ Size(req[r].body) > BodyLimit =>
           (Size(data[r]) = BodyLimit /\ ParseFailureReported(r))

\* C13 as amended: at most BodyLimit bytes of the body are read; a body of
\* at most BodyLimit bytes reaches the decoder unchanged; a longer one is
\* cut to its first BodyLimit bytes without a read error, and the handler
\* reports a JSON parse failure exactly when those bytes are not valid JSON
\* for a Task, as they never are when the document itself passes the cap;
\* when only bytes after a complete document are cut off, the task is
\* decoded as if they had not been sent.
C13_LongBodyIsCutToLimit ==
  \A r \in Reqs :
    hist[r].parsed = 1 =>
      /\ Size(data[r]) <= BodyLimit
      /\ Size(req[r].body) <= BodyLimit => data[r] = req[r].body
      /\ Size(req[r].body) > BodyLimit =>
           /\ Size(data[r]) = BodyLimit
           /\ (ret[r].returned /\ ret[r].err # Nil) =>
                Head(ret[r].err) \in {"Unable to parse JSON request body: ",
                                      "Unknown task type: ", "Database error: "}
           /\ req[r].body.docLen > BodyLimit => ParseFailureReported(r)
           /\ ParseFailureReported(r) <=> ~Decodes(data[r])
           /\ (req[r].body.docLen <= BodyLimit /\ Decodes(data[r])) =>
                /\ task[r].Type = req[r].body.type
                /\ task[r].Payload = req[r].body.payload
                /\ task[r].RawConfig = req[r].body.config

C13_Witness ==
  \E r \in Reqs :
    /\ hist[r].parsed = 1
    /\ Size(req[r].body) = BodyLimit + 1
    /\ req[r].body.tail = "garbage"
    /\ Size(data[r]) = BodyLimit
    /\ pc[r] = "open"
    /\ task[r].Type = TASK_TYPE_DB_MYSQL_QUERY


\* Everything the program keeps for request q: the request, its body, its
\* task, its session, and what it has returned, answered and logged.
PerRequest(q) ==
  <<pc[q], req[q], data[q], task[q], db[q], outcome[q], ret[q], resp[q],
    hist[q], log[q]>>

\* A step leaves the state of every request but one as it was.
OneRequestPerStep ==
  \E r \in Reqs : \A q \in Reqs \ {r} : PerRequest(q)' = PerRequest(q)

\* C14: no step of any request, in any interleaving, writes the
\* process-wide configuration, and every step changes the state of one
\* request only, so the configuration is all that concurrent requests
\* share.
C14_ConfigOnlySharedAndUnchanged ==
  [][config' = config /\ OneRequestPerStep]_vars

C14_Witness ==
  /\ pc[1] = "done" /\ pc[2] = "done"
  /\ hist[1].handler = "handleTask" /\ hist[2].handler = "handleTask"
  /\ IsError500(resp[1]) /\ hist[1].opens = 1
  /\ IsSuccess200(resp[2]) /\ hist[2].stmts = 1
  /\ config = [Host |-> HOST, Port |-> PORT, ApiKey |-> "K1"]

\* The errors json.Unmarshal gives for a config that does not decode.
ConfigDecodeErrors ==
  { <<"unexpected end of JSON input">>, <<"json: cannot unmarshal">> }

====
